---- MODULE Spec2Model ----
(***************************************************************************)
(* A model of the indexing and ranking engine of search-rs (src/src/core.rs)*)
(* together with the progress consumer (src/src/term.rs) and the wiring of  *)
(* src/src/main.rs.                                                         *)
(*                                                                          *)
(* Strings are sequences of one-character strings.  A content string is a   *)
(* record [text, pad]: the characters of `text` followed by `pad` spaces    *)
(* (a run-length form that lets a content of 1 GiB be written down).        *)
(***************************************************************************)
EXTENDS Integers, Sequences, FiniteSets, Bags, TLC

(***************************************************************************)
(* Bounds of the model.                                                     *)
(***************************************************************************)
MaxDocs == 3
NumWorkers == 2
MaxTotal == 21

(***************************************************************************)
(* Program constants.                                                       *)
(***************************************************************************)
GIG == 1024 * 1024 * 1024
SPLIT_CHARACTERS == {" ", ",", ".", ";"}
MaxWordLen == 64

(***************************************************************************)
(* Characters.                                                              *)
(***************************************************************************)
Upper == {"A", "B", "C", "S"}
Lower == {"a", "b", "c", "s"}
Digit == {"1"}
\* a two-byte alphabetic character outside ASCII
NonAscii == {"U+00E9"}

is_alphanumeric(c) == c \in Upper \cup Lower \cup Digit \cup NonAscii

\* number of UTF-8 bytes of a character
CharLen(c) == IF c \in NonAscii THEN 2 ELSE 1

RECURSIVE StrLen(_)
\* str::len : the length in bytes
StrLen(s) == IF s = <<>> THEN 0 ELSE CharLen(Head(s)) + StrLen(Tail(s))

\* String::len of a content: its text and its run of trailing spaces
ContentLen(content) == StrLen(content.text) + content.pad

RECURSIVE SplitAcc(_, _, _, _)
SplitAcc(s, i, cur, acc) ==
    IF i > Len(s) THEN Append(acc, cur)
    ELSE IF s[i] \in SPLIT_CHARACTERS
         THEN SplitAcc(s, i + 1, <<>>, Append(acc, cur))
         ELSE SplitAcc(s, i + 1, Append(cur, s[i]), acc)

\* str::split(SPLIT_CHARACTERS): the raw tokens, empty ones included
Split(s) == SplitAcc(s, 1, <<>>, <<>>)

\* the raw tokens of a content: every one of the `pad` trailing spaces ends a
\* token and starts an empty one, which prepare_word rejects, so the tokens of
\* the text are the only ones that can be accepted
Tokens(content) == Split(content.text)

RECURSIVE TrimStart(_)
TrimStart(s) ==
    IF s = <<>> THEN s
    ELSE IF is_alphanumeric(Head(s)) THEN s ELSE TrimStart(Tail(s))

RECURSIVE TrimEnd(_)
TrimEnd(s) ==
    IF s = <<>> THEN s
    ELSE IF is_alphanumeric(s[Len(s)]) THEN s
         ELSE TrimEnd(SubSeq(s, 1, Len(s) - 1))

\* str::trim_matches(|c| !c.is_alphanumeric())
trim_matches(s) == TrimEnd(TrimStart(s))

LowerOf(c) ==
    CASE c = "A" -> "a"
      [] c = "B" -> "b"
      [] c = "C" -> "c"
      [] c = "S" -> "s"
      [] OTHER -> c

\* str_to_lower: every byte in 'A'..='Z' gets 32 added, all others are kept
str_to_lower(s) == [i \in 1..Len(s) |-> LowerOf(s[i])]

\* The stemmer (crate::snowball) takes a plural "s" off a word of three or
\* more characters, unless the word ends in "ss".
stem(w) ==
    IF Len(w) >= 3 /\ w[Len(w)] = "s" /\ w[Len(w) - 1] # "s"
    THEN SubSeq(w, 1, Len(w) - 1)
    ELSE w

None == <<>>
Some(x) == <<x>>
IsSome(o) == o # None
Unwrap(o) == o[1]

\* a limit that also rejects a trimmed token of exactly 64 bytes
prepare_wordRejects64(word) ==
    LET trimmed == trim_matches(word)
    IN  IF trimmed = <<>> \/ StrLen(trimmed) >= MaxWordLen
        THEN None
        ELSE Some(stem(str_to_lower(trimmed)))

\* prepare_word
prepare_word(word) ==
    LET trimmed == trim_matches(word)
    IN  IF trimmed = <<>> \/ StrLen(trimmed) > MaxWordLen
        THEN None
        ELSE Some(stem(str_to_lower(trimmed)))

\* HashMap helpers: a map is a function on its key set
EmptyMap == <<>>
HasKey(m, k) == k \in DOMAIN m
GetOr(m, k, dflt) == IF k \in DOMAIN m THEN m[k] ELSE dflt
Put(m, k, v) == [x \in (DOMAIN m) \cup {k} |-> IF x = k THEN v ELSE m[x]]
Remove(m, k) == [x \in (DOMAIN m) \ {k} |-> m[x]]

RECURSIVE DocFold(_, _, _)
\* the fold of Doc::new over the raw tokens from position i on
DocFold(toks, i, acc) ==
    IF i > Len(toks) THEN acc
    ELSE LET w == prepare_word(toks[i])
         IN  IF IsSome(w)
             THEN DocFold(toks, i + 1,
                          [tf |-> Put(acc.tf, Unwrap(w), GetOr(acc.tf, Unwrap(w), 0) + 1),
                           count |-> acc.count + 1])
             ELSE DocFold(toks, i + 1, acc)

\* a Doc::new whose total counts every raw token, accepted or not
DocNewCountsAll(content) ==
    [tf |-> DocFold(Tokens(content), 1, [tf |-> EmptyMap, count |-> 0]).tf,
     count |-> Len(Tokens(content))]

\* Doc::new
DocNew(content) == DocFold(Tokens(content), 1, [tf |-> EmptyMap, count |-> 0])

(***************************************************************************)
(* The index: Model { count, milestones_tx, milestones, df, docs }.         *)
(***************************************************************************)
Percentages == [i \in 1..20 |-> 5 * i]

\* Model::calculate_milestones: (5..=100).step_by(5) paired with its count
calculate_milestones(docs_count) ==
    [i \in 1..20 |-> <<(docs_count * Percentages[i]) \div 100, Percentages[i]>>]

\* the value a usize holds after `0 - 1` in a build without overflow checks
\* (usize::MAX, written as the largest integer the checker holds)
UsizeWrapped == 2147483647

\* `*f -= 1`
DecrUsize(f) == IF f = 0 THEN UsizeWrapped ELSE f - 1

\* rm_document without its loop over the old keys: the old document is taken
\* out of docs and df is left as it was
RmDocumentKeepsDf(d, f, path) ==
    IF HasKey(d, path)
    THEN [docs |-> Remove(d, path), df |-> f, underflow |-> FALSE]
    ELSE [docs |-> d, df |-> f, underflow |-> FALSE]

\* a rm_document whose loop runs over every key of df, not over the keys of
\* the old document
RmDocumentDecrementsAll(d, f, path) ==
    IF HasKey(d, path)
    THEN [docs |-> Remove(d, path),
          df |-> [t \in DOMAIN f |-> DecrUsize(f[t])],
          underflow |-> \E t \in DOMAIN f : f[t] = 0]
    ELSE [docs |-> d, df |-> f, underflow |-> FALSE]

\* Model::rm_document on (docs, df): the old document is taken out of docs and
\* every key of its tf that is a key of df is decremented
RmDocument(d, f, path) ==
    IF HasKey(d, path)
    THEN LET old == d[path].tf
         IN  [docs |-> Remove(d, path),
              df |-> [t \in DOMAIN f |-> IF t \in DOMAIN old THEN DecrUsize(f[t]) ELSE f[t]],
              underflow |-> \E t \in DOMAIN old : HasKey(f, t) /\ f[t] = 0]
    ELSE [docs |-> d, df |-> f, underflow |-> FALSE]

\* the loop without its increment branch: a key df already has is left alone
ApplyDfInsertOnly(f, newdoc) ==
    [t \in (DOMAIN f) \cup (DOMAIN newdoc.tf) |-> IF t \in DOMAIN f THEN f[t] ELSE 1]

\* the loop of add_document over doc.tf.keys(): increment, or insert 1
ApplyDf(f, newdoc) ==
    [t \in (DOMAIN f) \cup (DOMAIN newdoc.tf) |->
        IF t \in DOMAIN newdoc.tf THEN GetOr(f, t, 0) + 1 ELSE f[t]]

\* print_progress leaving its loop at the first milestone that matches
DueFirstOnly(ms, c) ==
    LET hit == SelectSeq(ms, LAMBDA m : m[1] = c)
    IN  IF hit = <<>> THEN <<>> ELSE <<hit[1][2]>>

\* print_progress comparing with `>=` where the code has `eq`
DueFromCount(ms, c) ==
    LET hit == SelectSeq(ms, LAMBDA m : c >= m[1])
    IN  [i \in 1..Len(hit) |-> hit[i][2]]

\* print_progress walking the milestones from the last to the first
DueReversed(ms, c) ==
    LET hit == SelectSeq(ms, LAMBDA m : m[1] = c)
    IN  [i \in 1..Len(hit) |-> hit[Len(hit) + 1 - i][2]]

\* the percentages print_progress sends when the running count is c, in order
Due(ms, c) ==
    LET hit == SelectSeq(ms, LAMBDA m : m[1] = c)
    IN  [i \in 1..Len(hit) |-> hit[i][2]]

\* Model::add_document as a function of the index (docs, df): retract the old
\* document of the path, build the new one, apply it to df, store it
AddDocument(m, path, content) ==
    LET r == RmDocument(m.docs, m.df, path)
        newdoc == DocNew(content)
    IN  [docs |-> Put(r.docs, path, newdoc), df |-> ApplyDf(r.df, newdoc)]

(***************************************************************************)
(* Inputs.  A path is written as a number: path i is the i-th distinct file *)
(* of an input (an input names its files in the order they first occur).    *)
(***************************************************************************)
Paths == 1..MaxDocs

\* "a Bcs."  ->  a:1 bc:1
ContentA == [text |-> <<"a", " ", "B", "c", "s", ".">>, pad |-> 0]
\* "bc, c;bc"  ->  bc:2 c:1
ContentB == [text |-> <<"b", "c", ",", " ", "c", ";", "b", "c">>, pad |-> 0]
\* "!! ;"  ->  no term at all
ContentE == [text |-> <<"!", "!", " ", ";">>, pad |-> 0]
\* "a" followed by spaces up to 1 GiB  ->  a:1
ContentBig == [text |-> <<"a">>, pad |-> GIG - 1]

SmallContents == {ContentA, ContentB, ContentE}

\* the files of an input are numbered in the order of their first occurrence
FirstOccurrenceOrder(ps) ==
    \A i \in 1..Len(ps) : \A q \in 1..(ps[i] - 1) : \E j \in 1..(i - 1) : ps[j] = q

PathSeqs(n) == {ps \in [1..n -> Paths] : FirstOccurrenceOrder(ps)}

\* inputs of small files: any files, any contents
SmallInputs ==
    UNION {{[i \in 1..n |-> [path |-> ps[i], content |-> cs[i]]] :
                ps \in PathSeqs(n), cs \in [1..n -> SmallContents]} : n \in 0..MaxDocs}

\* inputs with a 1 GiB file: the content of a small place is fixed by the
\* place, the files are free
LaterContent(i) ==
    CASE i % 3 = 2 -> ContentB
      [] i % 3 = 0 -> ContentA
      [] OTHER -> ContentE

\* the 1 GiB file in the last place
BigLastInputs ==
    UNION {{[i \in 1..n |-> [path |-> ps[i],
                             content |-> IF i = n THEN ContentBig ELSE LaterContent(i)]] :
                ps \in PathSeqs(n)} : n \in 1..MaxDocs}

\* the 1 GiB file in the first place
BigFirstInputs ==
    UNION {{[i \in 1..n |-> [path |-> ps[i],
                             content |-> IF i = 1 THEN ContentBig ELSE LaterContent(i)]] :
                ps \in PathSeqs(n)} : n \in 1..MaxDocs}

\* "a" followed by spaces up to one byte less than 1 GiB
ContentAlmostBig == [text |-> <<"a">>, pad |-> GIG - 2]

\* a file one byte short of 1 GiB in the first place
AlmostBigInputs ==
    {<<[path |-> 1, content |-> ContentAlmostBig], [path |-> 2, content |-> ContentB]>>}

InputSeqs == SmallInputs \cup BigLastInputs \cup BigFirstInputs \cup AlmostBigInputs

\* long inputs that index one file again and again: a small one, or a 1 GiB one
LongInput(n, big) ==
    [i \in 1..n |-> [path |-> 1, content |-> IF big THEN ContentBig ELSE ContentA]]

Totals == (0..MaxTotal) \cup {40, 200}

LongInputs == {LongInput(n, big) : n \in Totals, big \in BOOLEAN}

NoItem == [path |-> 0, content |-> [text |-> <<>>, pad |-> 0]]
NoDoc == [tf |-> EmptyMap, count |-> 0]

\* the elements of a sequence with their multiplicities
SeqToBag(s) ==
    [e \in {s[i] : i \in 1..Len(s)} |-> Cardinality({i \in 1..Len(s) : s[i] = e})]

(***************************************************************************)
(* f32.  A value is NaN, an infinity, or a finite number kept in fixed      *)
(* point (Scale units make 1.0; a finite result is cut to a whole number of *)
(* units, where f32 rounds to 24 bits).  The special cases are IEEE-754's.  *)
(***************************************************************************)
Scale == 100 * 100

NaN == [cls |-> "nan", v |-> 0]
PosInf == [cls |-> "inf", v |-> 1]
NegInf == [cls |-> "inf", v |-> -1]
Fin(v) == [cls |-> "fin", v |-> v]
Zero == Fin(0)

is_nan(x) == x.cls = "nan"

\* (a as f32) / (b as f32) for a, b of type usize
DivUsize(a, b) ==
    IF b = 0
    THEN IF a = 0 THEN NaN ELSE PosInf
    ELSE Fin((a * Scale) \div b)

\* log10 of 1..25 in Scale units
Log10Table ==
    <<0, 3010, 4771, 6021, 6990, 7782, 8451, 9031, 9542, 10000,
      10414, 10792, 11139, 11461, 11761, 12041, 12304, 12553, 12788, 13010,
      13222, 13424, 13617, 13802, 13979>>

\* ((n as f32) / (d as f32)).log10() for n, d of type usize
Log10Ratio(n, d) ==
    IF d = 0
    THEN IF n = 0 THEN NaN ELSE PosInf
    ELSE IF n = 0 THEN NegInf
         ELSE Fin(Log10Table[n] - Log10Table[d])

Sign(v) == IF v > 0 THEN 1 ELSE IF v < 0 THEN -1 ELSE 0

\* f32 * f32
FMul(x, y) ==
    CASE is_nan(x) \/ is_nan(y) -> NaN
      [] x.cls = "inf" /\ y.cls = "inf" -> [cls |-> "inf", v |-> x.v * y.v]
      [] x.cls = "inf" -> IF y.v = 0 THEN NaN ELSE [cls |-> "inf", v |-> x.v * Sign(y.v)]
      [] y.cls = "inf" -> IF x.v = 0 THEN NaN ELSE [cls |-> "inf", v |-> y.v * Sign(x.v)]
      [] OTHER -> Fin(Sign(x.v) * Sign(y.v) * ((Sign(x.v) * x.v * Sign(y.v) * y.v) \div Scale))

\* f32 + f32
FAdd(x, y) ==
    CASE is_nan(x) \/ is_nan(y) -> NaN
      [] x.cls = "inf" /\ y.cls = "inf" -> IF x.v = y.v THEN x ELSE NaN
      [] x.cls = "inf" -> x
      [] y.cls = "inf" -> y
      [] OTHER -> Fin(x.v + y.v)

\* x < y for values that are not NaN
FLess(x, y) ==
    CASE x.cls = "inf" /\ y.cls = "inf" -> x.v < y.v
      [] x.cls = "inf" -> x.v < 0
      [] y.cls = "inf" -> y.v > 0
      [] OTHER -> x.v < y.v

\* f32::partial_cmp
partial_cmp(x, y) ==
    IF is_nan(x) \/ is_nan(y) THEN None
    ELSE Some(IF FLess(x, y) THEN "Less" ELSE IF FLess(y, x) THEN "Greater" ELSE "Equal")

(***************************************************************************)
(* Ranking.                                                                 *)
(***************************************************************************)
\* Model::tf
tf(t, d) == DivUsize(GetOr(d.tf, t, 0), d.count)

\* idf with the quotient the other way round: df over the number of documents
idfInverted(d, f, term) == Log10Ratio(GetOr(f, term, 0), Cardinality(DOMAIN d))

\* an idf that gives 0 for a term no document holds
idfZeroWhenUnseen(d, f, term) ==
    IF GetOr(f, term, 0) = 0 THEN Zero
    ELSE Log10Ratio(Cardinality(DOMAIN d), GetOr(f, term, 0))

\* Model::idf
idf(d, f, term) == Log10Ratio(Cardinality(DOMAIN d), GetOr(f, term, 0))

RECURSIVE FilterMapPrepare(_)
\* .filter_map(prepare_word) over the raw tokens
FilterMapPrepare(toks) ==
    IF toks = <<>> THEN <<>>
    ELSE LET w == prepare_word(Head(toks))
         IN  (IF IsSome(w) THEN <<Unwrap(w)>> ELSE <<>>) \o FilterMapPrepare(Tail(toks))

\* the tokens of a query
QueryTokens(query) == FilterMapPrepare(Split(query))

RECURSIVE RankFrom(_, _, _, _, _)
\* tokens.iter().map(|t| tf(t, doc) * idf(t)).sum::<f32>(), from token i on
RankFrom(d, f, document, tokens, i) ==
    IF i > Len(tokens) THEN Zero
    ELSE FAdd(FMul(tf(tokens[i], document), idf(d, f, tokens[i])),
              RankFrom(d, f, document, tokens, i + 1))

Rank(d, f, path, tokens) == RankFrom(d, f, d[path], tokens, 1)

\* the filter of search's filter_map: a document is kept unless its rank is NaN
Kept(rank) == ~is_nan(rank)

\* the comparator with its arguments the other way round
SortCmpAscending(a, b) == Unwrap(partial_cmp(a[2], b[2]))

\* the comparator handed to par_sort_unstable_by
SortCmp(a, b) == Unwrap(partial_cmp(b[2], a[2]))

RECURSIVE SortedBy(_)
\* the outcomes of an unstable sort of the set `items` by `SortCmp`: every
\* arrangement of the items in which no element is Greater than a later one
\* (the first place takes any item that is Greater than no other, the rest
\* is an arrangement of the others)
SortedBy(items) ==
    IF items = {} THEN {<<>>}
    ELSE UNION {{<<e>> \o r : r \in SortedBy(items \ {e})} :
                    e \in {x \in items : \A y \in items : SortCmp(x, y) # "Greater"}}

\* a search that answers with one row for no path when nothing is ranked
SearchResultsPadded(d, f, query) ==
    LET tokens == QueryTokens(query)
        ranked == {<<path, Rank(d, f, path, tokens)>> : path \in DOMAIN d}
        kept == {e \in ranked : Kept(e[2])}
    IN  IF kept = {} THEN {<< <<0, Zero>> >>} ELSE SortedBy(kept)

\* Model::search: the possible results for a query on the index (d, f)
SearchResults(d, f, query) ==
    LET tokens == QueryTokens(query)
        ranked == {<<path, Rank(d, f, path, tokens)>> : path \in DOMAIN d}
    IN  SortedBy({e \in ranked : Kept(e[2])})

\* ""
QueryEmpty == <<>>
\* "Bcs"  ->  bc
QueryBc == <<"B", "c", "s">>
\* "a, c"  ->  a c
QueryAC == <<"a", ",", " ", "c">>
\* "1 bc"  ->  1 bc   (no document holds "1")
QueryUnseen == <<"1", " ", "b", "c">>

QueryChoices == {QueryEmpty, QueryBc, QueryAC, QueryUnseen}

\* no request has been served yet
NoQuery == <<"no request">>

(***************************************************************************)
(* State.                                                                   *)
(***************************************************************************)
Main == 0
Workers == 1..NumWorkers
Threads == {Main} \cup Workers

VARIABLES
    contents,     \* the input of add_contents: a sequence of (path, content)
    pc,           \* add_contents: "new" "seq" "par" "done" "panicked" "crashed"
    idx,          \* sequential mode: position of the next pair
    pending,      \* parallel mode: the pairs no worker has taken yet (a bag)
    tpc,          \* per thread: "idle" "wait" "rm" "build" "apply" "count"
                  \*             "progress" "store" "release"
    cur,          \* per thread: the pair its add_document call is about
    doc,          \* per thread: the local `doc` of add_document
    lock,         \* holder of the mutex around the model, 0 when free
    poisoned,     \* the mutex is poisoned (a holder panicked)
    taskPanicked, \* some closure of the parallel for_each panicked
    docs,         \* Model.docs
    df,           \* Model.df
    count,        \* Model.count
    milestones,   \* Model.milestones
    underflow,    \* a `*f -= 1` met f = 0
    chan,         \* the channel: signals sent and not yet received
    sent,         \* every successful send: [sig, cnt]
    rxAlive,      \* the Receiver has not been dropped
    cpc,          \* draw_percentage: "polling" "returned" "dropped"
    percentage,   \* the local `percentage` of draw_percentage (0 for None)
    received,     \* history: the signals try_recv has returned, in order
    query,        \* the body of the last search request served
    ranks,        \* the result of the last search
    response,     \* the rows of the last response to POST /api/search
    wpc,          \* a call of prepare_word: "none" "new" "prepared" "again"
    word,         \* the raw token handed to prepare_word
    prepared,     \* what prepare_word returned for it
    again         \* what prepare_word returned for its own output

buildVars == <<contents, pc, idx, pending, tpc, cur, doc, lock, poisoned, taskPanicked>>
indexVars == <<docs, df, count, milestones, underflow>>
chanVars == <<chan, sent, rxAlive>>
consVars == <<cpc, percentage, received>>
servVars == <<query, ranks, response>>
wordVars == <<wpc, word, prepared, again>>
vars == <<buildVars, indexVars, chanVars, consVars, servVars, wordVars>>

\* main: Model::new(tx, contents.len()), the consumer thread spawned
InitModel(input) ==
    /\ contents = input
    /\ pc = "new"
    /\ idx = 1
    /\ pending = EmptyBag
    /\ tpc = [t \in Threads |-> "idle"]
    /\ cur = [t \in Threads |-> NoItem]
    /\ doc = [t \in Threads |-> NoDoc]
    /\ lock = 0
    /\ poisoned = FALSE
    /\ taskPanicked = FALSE
    /\ docs = EmptyMap
    /\ df = EmptyMap
    /\ count = 0
    /\ milestones = calculate_milestones(Len(input))
    /\ underflow = FALSE
    /\ chan = <<>>
    /\ sent = <<>>
    /\ rxAlive = TRUE
    /\ cpc = "polling"
    /\ percentage = 0
    /\ received = <<>>
    /\ query = NoQuery
    /\ ranks = <<>>
    /\ response = <<>>

\* a run of the program: prepare_word is called inside Doc::new and search
InitWith(input) ==
    /\ InitModel(input)
    /\ wpc = "none"
    /\ word = <<>>
    /\ prepared = None
    /\ again = None

Init == \E input \in InputSeqs : InitWith(input)

InitProgress == \E input \in LongInputs : InitWith(input)

(***************************************************************************)
(* The channel of main (std::sync::mpsc::channel: asynchronous, unbounded). *)
(***************************************************************************)
\* a channel of capacity 1 (sync_channel(1)): send waits while it is full
SendBlocksWhenFull(ch) == Len(ch) >= 1

\* Sender::send waits for room in the channel: never, the channel is unbounded
SendBlocks(ch) == FALSE

\* Sender::send returns Ok exactly while the Receiver exists
SendOk(alive) == alive

\* the record kept of a send: the signal and the running count it was sent at
Signals(sigs) == [i \in 1..Len(sigs) |-> [sig |-> sigs[i], cnt |-> count]]

(***************************************************************************)
(* add_contents.                                                            *)
(***************************************************************************)
\* the test without its take(contents.len() / 2): every pair is looked at
have_big_files_anywhere(input) ==
    \E i \in 1..Len(input) : ContentLen(input[i].content) >= GIG

\* contents.iter().take(contents.len() / 2).any(|c| c.1.len() >= GIG)
have_big_files(input) ==
    \E i \in 1..(Len(input) \div 2) : ContentLen(input[i].content) >= GIG

\* the mode is chosen; in parallel mode the pairs are handed to the pool
AddContentsStart ==
    /\ pc = "new"
    /\ pc' = IF have_big_files(contents) THEN "par" ELSE "seq"
    /\ pending' = IF have_big_files(contents) THEN SeqToBag(contents) ELSE EmptyBag
    /\ UNCHANGED <<contents, idx, tpc, cur, doc, lock, poisoned, taskPanicked>>
    /\ UNCHANGED <<indexVars, chanVars, consVars, servVars, wordVars>>

Running(t) == IF t = Main THEN pc = "seq" ELSE pc = "par"

\* a sequential loop that walks the input from its last pair to its first
SeqTakeReversed ==
    /\ pc = "seq"
    /\ tpc[Main] = "idle"
    /\ idx <= Len(contents)
    /\ cur' = [cur EXCEPT ![Main] = contents[Len(contents) + 1 - idx]]
    /\ idx' = idx + 1
    /\ tpc' = [tpc EXCEPT ![Main] = "rm"]
    /\ UNCHANGED <<contents, pc, pending, doc, lock, poisoned, taskPanicked>>
    /\ UNCHANGED <<indexVars, chanVars, consVars, servVars, wordVars>>

\* sequential mode: the next pair, in input order, enters add_document
SeqTake ==
    /\ pc = "seq"
    /\ tpc[Main] = "idle"
    /\ idx <= Len(contents)
    /\ cur' = [cur EXCEPT ![Main] = contents[idx]]
    /\ idx' = idx + 1
    /\ tpc' = [tpc EXCEPT ![Main] = "rm"]
    /\ UNCHANGED <<contents, pc, pending, doc, lock, poisoned, taskPanicked>>
    /\ UNCHANGED <<indexVars, chanVars, consVars, servVars, wordVars>>

\* a pool that loses a pair: the thread that takes one drops another with it
ParTakeSkipping(w) ==
    /\ pc = "par"
    /\ tpc[w] = "idle"
    /\ \E item \in BagToSet(pending) :
        /\ cur' = [cur EXCEPT ![w] = item]
        /\ \E other \in BagToSet(pending) :
            pending' = (pending (-) SetToBag({item})) (-) SetToBag({other})
    /\ tpc' = [tpc EXCEPT ![w] = "wait"]
    /\ UNCHANGED <<contents, pc, idx, doc, lock, poisoned, taskPanicked>>
    /\ UNCHANGED <<indexVars, chanVars, consVars, servVars, wordVars>>

\* parallel mode: a pool thread takes any pair not yet taken
ParTake(w) ==
    /\ pc = "par"
    /\ tpc[w] = "idle"
    /\ \E item \in BagToSet(pending) :
        /\ cur' = [cur EXCEPT ![w] = item]
        /\ pending' = pending (-) SetToBag({item})
    /\ tpc' = [tpc EXCEPT ![w] = "wait"]
    /\ UNCHANGED <<contents, pc, idx, doc, lock, poisoned, taskPanicked>>
    /\ UNCHANGED <<indexVars, chanVars, consVars, servVars, wordVars>>

\* a closure that calls add_document without waiting for the mutex
AcquireNoMutex(w) ==
    /\ pc = "par"
    /\ tpc[w] = "wait"
    /\ ~poisoned
    /\ lock' = w
    /\ tpc' = [tpc EXCEPT ![w] = "rm"]
    /\ UNCHANGED <<contents, pc, idx, pending, cur, doc, poisoned, taskPanicked>>
    /\ UNCHANGED <<indexVars, chanVars, consVars, servVars, wordVars>>

\* zelf.lock(): the closure gets the guard before it calls add_document
Acquire(w) ==
    /\ pc = "par"
    /\ tpc[w] = "wait"
    /\ lock = 0
    /\ ~poisoned
    /\ lock' = w
    /\ tpc' = [tpc EXCEPT ![w] = "rm"]
    /\ UNCHANGED <<contents, pc, idx, pending, cur, doc, poisoned, taskPanicked>>
    /\ UNCHANGED <<indexVars, chanVars, consVars, servVars, wordVars>>

\* add_document without its first line: nothing is retracted
RmSkipped(t) ==
    /\ Running(t)
    /\ tpc[t] = "rm"
    /\ tpc' = [tpc EXCEPT ![t] = "build"]
    /\ UNCHANGED <<contents, pc, idx, pending, cur, doc, lock, poisoned, taskPanicked>>
    /\ UNCHANGED <<indexVars, chanVars, consVars, servVars, wordVars>>

\* add_document: self.rm_document(&file_path)
Rm(t) ==
    /\ Running(t)
    /\ tpc[t] = "rm"
    /\ LET r == RmDocument(docs, df, cur[t].path)
       IN  /\ docs' = r.docs
           /\ df' = r.df
           /\ underflow' = (underflow \/ r.underflow)
    /\ tpc' = [tpc EXCEPT ![t] = "build"]
    /\ UNCHANGED <<contents, pc, idx, pending, cur, doc, lock, poisoned, taskPanicked>>
    /\ UNCHANGED <<count, milestones, chanVars, consVars, servVars, wordVars>>

\* add_document: let doc = Doc::new(content)
Build(t) ==
    /\ Running(t)
    /\ tpc[t] = "build"
    /\ doc' = [doc EXCEPT ![t] = DocNew(cur[t].content)]
    /\ tpc' = [tpc EXCEPT ![t] = "apply"]
    /\ UNCHANGED <<contents, pc, idx, pending, cur, lock, poisoned, taskPanicked>>
    /\ UNCHANGED <<indexVars, chanVars, consVars, servVars, wordVars>>

\* add_document: doc.tf.keys().for_each(...)
Apply(t) ==
    /\ Running(t)
    /\ tpc[t] = "apply"
    /\ df' = ApplyDf(df, doc[t])
    /\ tpc' = [tpc EXCEPT ![t] = "count"]
    /\ UNCHANGED <<contents, pc, idx, pending, cur, doc, lock, poisoned, taskPanicked>>
    /\ UNCHANGED <<docs, count, milestones, underflow, chanVars, consVars, servVars, wordVars>>

\* a guard that is dropped once the count is incremented, before the store
CountAndUnlock(t) ==
    /\ Running(t)
    /\ tpc[t] = "count"
    /\ count' = count + 1
    /\ tpc' = [tpc EXCEPT ![t] = "progress"]
    /\ lock' = IF t = Main THEN lock ELSE 0
    /\ UNCHANGED <<contents, pc, idx, pending, cur, doc, poisoned, taskPanicked>>
    /\ UNCHANGED <<docs, df, milestones, underflow, chanVars, consVars, servVars, wordVars>>

\* a counter that follows docs.len(): the documents stored, and this one
CountStored(t) ==
    /\ Running(t)
    /\ tpc[t] = "count"
    /\ count' = Cardinality(DOMAIN docs) + 1
    /\ tpc' = [tpc EXCEPT ![t] = "progress"]
    /\ UNCHANGED <<contents, pc, idx, pending, cur, doc, lock, poisoned, taskPanicked>>
    /\ UNCHANGED <<docs, df, milestones, underflow, chanVars, consVars, servVars, wordVars>>

\* add_document: self.count += 1
Count(t) ==
    /\ Running(t)
    /\ tpc[t] = "count"
    /\ count' = count + 1
    /\ tpc' = [tpc EXCEPT ![t] = "progress"]
    /\ UNCHANGED <<contents, pc, idx, pending, cur, doc, lock, poisoned, taskPanicked>>
    /\ UNCHANGED <<docs, df, milestones, underflow, chanVars, consVars, servVars, wordVars>>

\* add_document: self.print_progress(); a send to a dropped Receiver is an Err
\* and its unwrap panics: the main thread leaves add_contents, a pool thread
\* drops its guard (poisoning the mutex) and goes on with other pairs
Progress(t) ==
    /\ Running(t)
    /\ tpc[t] = "progress"
    /\ LET due == Due(milestones, count)
       IN  IF due = <<>> \/ SendOk(rxAlive)
           THEN /\ due # <<>> => ~SendBlocks(chan)
                /\ chan' = chan \o due
                /\ sent' = sent \o Signals(due)
                /\ tpc' = [tpc EXCEPT ![t] = "store"]
                /\ UNCHANGED <<pc, cur, lock, poisoned, taskPanicked>>
           ELSE /\ pc' = IF t = Main THEN "panicked" ELSE pc
                /\ tpc' = [tpc EXCEPT ![t] = "idle"]
                /\ cur' = [cur EXCEPT ![t] = NoItem]
                /\ lock' = IF t = Main THEN lock ELSE 0
                /\ poisoned' = (poisoned \/ t # Main)
                /\ taskPanicked' = (taskPanicked \/ t # Main)
                /\ UNCHANGED <<chan, sent>>
    /\ UNCHANGED <<contents, idx, pending, doc, rxAlive>>
    /\ UNCHANGED <<indexVars, consVars, servVars, wordVars>>

\* add_document: self.docs.insert(file_path, doc)
Store(t) ==
    /\ Running(t)
    /\ tpc[t] = "store"
    /\ docs' = Put(docs, cur[t].path, doc[t])
    /\ tpc' = [tpc EXCEPT ![t] = IF t = Main THEN "idle" ELSE "release"]
    /\ cur' = [cur EXCEPT ![t] = IF t = Main THEN NoItem ELSE cur[t]]
    /\ doc' = [doc EXCEPT ![t] = NoDoc]
    /\ UNCHANGED <<contents, pc, idx, pending, lock, poisoned, taskPanicked>>
    /\ UNCHANGED <<df, count, milestones, underflow, chanVars, consVars, servVars, wordVars>>

\* a closure that forgets its guard: the mutex stays locked when it ends
ReleaseForgetsGuard(w) ==
    /\ pc = "par"
    /\ tpc[w] = "release"
    /\ lock' = lock
    /\ tpc' = [tpc EXCEPT ![w] = "idle"]
    /\ cur' = [cur EXCEPT ![w] = NoItem]
    /\ UNCHANGED <<contents, pc, idx, pending, doc, poisoned, taskPanicked>>
    /\ UNCHANGED <<indexVars, chanVars, consVars, servVars, wordVars>>

\* the end of the for_each closure: the guard is dropped
Release(w) ==
    /\ pc = "par"
    /\ tpc[w] = "release"
    /\ lock' = 0
    /\ tpc' = [tpc EXCEPT ![w] = "idle"]
    /\ cur' = [cur EXCEPT ![w] = NoItem]
    /\ UNCHANGED <<contents, pc, idx, pending, doc, poisoned, taskPanicked>>
    /\ UNCHANGED <<indexVars, chanVars, consVars, servVars, wordVars>>

\* add_contents returning without its terminal send
SendFinalSkipped ==
    /\ pc' = "done"
    /\ UNCHANGED <<chan, sent>>

\* the terminal signal: self.milestones_tx.send(0).unwrap()
SendFinal ==
    IF SendOk(rxAlive)
    THEN /\ ~SendBlocks(chan)
         /\ chan' = Append(chan, 0)
         /\ sent' = Append(sent, [sig |-> 0, cnt |-> count])
         /\ pc' = "done"
    ELSE /\ pc' = "panicked"
         /\ UNCHANGED <<chan, sent>>

\* sequential mode: the loop is over
SeqFinish ==
    /\ pc = "seq"
    /\ tpc[Main] = "idle"
    /\ idx > Len(contents)
    /\ SendFinal
    /\ UNCHANGED <<contents, idx, pending, tpc, cur, doc, lock, poisoned, taskPanicked>>
    /\ UNCHANGED <<indexVars, rxAlive, consVars, servVars, wordVars>>

\* parallel mode: for_each returns when every closure has run (and panics again
\* if one of them panicked); then zelf.lock().unwrap() and the terminal signal
ParFinish ==
    /\ pc = "par"
    /\ pending = EmptyBag
    /\ \A w \in Workers : tpc[w] = "idle"
    /\ lock = 0
    /\ IF taskPanicked \/ poisoned
       THEN pc' = "panicked" /\ UNCHANGED <<chan, sent>>
       ELSE SendFinal
    /\ UNCHANGED <<contents, idx, pending, tpc, cur, doc, lock, poisoned, taskPanicked>>
    /\ UNCHANGED <<indexVars, rxAlive, consVars, servVars, wordVars>>

(***************************************************************************)
(* draw_percentage, the consumer thread of main.                            *)
(***************************************************************************)
\* a draw_percentage that returns when it has drawn 100
ConsumerRecvReturnsAt100 ==
    /\ pc # "crashed"
    /\ cpc = "polling"
    /\ chan # <<>>
    /\ chan' = Tail(chan)
    /\ cpc' = IF Head(chan) \in {0, 100} THEN "returned" ELSE "polling"
    /\ rxAlive' = (Head(chan) \notin {0, 100})
    /\ percentage' = IF Head(chan) = 0 THEN percentage ELSE Head(chan)
    /\ received' = Append(received, Head(chan))
    /\ UNCHANGED <<buildVars, indexVars, sent, servVars, wordVars>>

\* rx.try_recv() returns a signal: 0 ends the thread (the Receiver is dropped
\* with it), any other value is remembered as the percentage to draw.  An
\* empty channel changes nothing: the screen is redrawn and the loop goes on.
ConsumerRecv ==
    /\ pc # "crashed"
    /\ cpc = "polling"
    /\ chan # <<>>
    /\ chan' = Tail(chan)
    /\ cpc' = IF Head(chan) = 0 THEN "returned" ELSE "polling"
    /\ rxAlive' = (Head(chan) # 0)
    /\ percentage' = IF Head(chan) = 0 THEN percentage ELSE Head(chan)
    /\ received' = Append(received, Head(chan))
    /\ UNCHANGED <<buildVars, indexVars, sent, servVars, wordVars>>

(***************************************************************************)
(* The response of serve_search: the first 20 rows of the result, as JSON.  *)
(***************************************************************************)
TakeLimit == 20

\* serde_json writes an f32 that is not finite as null
JsonF32(x) == IF x.cls = "fin" THEN x ELSE [cls |-> "null", v |-> 0]

\* a response that carries every row of the result
RespondAll(result) ==
    [i \in 1..Len(result) |-> <<result[i][1], JsonF32(result[i][2])>>]

\* result.iter().take(20).collect(), written by serde_json::to_string
Respond(result) ==
    [i \in 1..(IF Len(result) < TakeLimit THEN Len(result) ELSE TakeLimit) |->
        <<result[i][1], JsonF32(result[i][2])>>]

(***************************************************************************)
(* The server of main: it is created after add_contents has returned and    *)
(* answers each POST /api/search with model.search(body).  search takes     *)
(* &self and writes nothing to the index, so a later request sees the index *)
(* the first one saw: a behaviour follows one request.                      *)
(***************************************************************************)
\* a search that enters the terms of the query in df as it looks them up
SearchEnteringTerms(q) ==
    /\ pc = "done"
    /\ query = NoQuery
    /\ query' = q
    /\ \E result \in SearchResults(docs, df, q) :
        /\ ranks' = result
        /\ response' = Respond(result)
    /\ df' = [t \in (DOMAIN df) \cup {QueryTokens(q)[i] : i \in DOMAIN QueryTokens(q)} |->
                GetOr(df, t, 0)]
    /\ UNCHANGED <<buildVars, docs, count, milestones, underflow, chanVars, consVars, wordVars>>

\* a server that answers requests while add_contents is still running
SearchDuringBuild(q) ==
    /\ pc \in {"seq", "par", "done"}
    /\ query = NoQuery
    /\ query' = q
    /\ \E result \in SearchResults(docs, df, q) :
        /\ ranks' = result
        /\ response' = Respond(result)
    /\ UNCHANGED <<buildVars, indexVars, chanVars, consVars, wordVars>>


Search(q) ==
    /\ pc = "done"
    /\ query = NoQuery
    /\ query' = q
    /\ \E result \in SearchResults(docs, df, q) :
        /\ ranks' = result
        /\ response' = Respond(result)
    /\ UNCHANGED <<buildVars, indexVars, chanVars, consVars, wordVars>>

(***************************************************************************)
(* A consumer that hangs up: the Receiver is dropped while the build runs   *)
(* (the consumer thread ends early, as when its println! panics).           *)
(***************************************************************************)
DropReceiver ==
    /\ pc \in {"new", "seq", "par"}
    /\ cpc = "polling"
    /\ cpc' = "dropped"
    /\ rxAlive' = FALSE
    /\ chan' = <<>>
    /\ UNCHANGED <<buildVars, indexVars, sent, percentage, received, servVars, wordVars>>

\* zelf.lock() on the poisoned mutex returns Err, and unwrap_unchecked on an
\* Err is undefined behaviour.  One outcome: the guard inside the PoisonError
\* is used as if the lock had succeeded.
AcquirePoisoned(w) ==
    /\ pc = "par"
    /\ tpc[w] = "wait"
    /\ lock = 0
    /\ poisoned
    /\ lock' = w
    /\ tpc' = [tpc EXCEPT ![w] = "rm"]
    /\ UNCHANGED <<contents, pc, idx, pending, cur, doc, poisoned, taskPanicked>>
    /\ UNCHANGED <<indexVars, chanVars, consVars, servVars, wordVars>>

\* The other outcome: the process dies.
CrashOnPoisoned(w) ==
    /\ pc = "par"
    /\ tpc[w] = "wait"
    /\ lock = 0
    /\ poisoned
    /\ pc' = "crashed"
    /\ UNCHANGED <<contents, idx, pending, tpc, cur, doc, lock, poisoned, taskPanicked>>
    /\ UNCHANGED <<indexVars, chanVars, consVars, servVars, wordVars>>

Builder ==
    \/ AddContentsStart
    \/ SeqTake
    \/ SeqFinish
    \/ ParFinish
    \/ \E w \in Workers : ParTake(w) \/ Acquire(w) \/ Release(w)
    \/ \E t \in Threads : Rm(t) \/ Build(t) \/ Apply(t) \/ Count(t) \/ Progress(t) \/ Store(t)

Next == Builder \/ ConsumerRecv \/ \E q \in QueryChoices : Search(q)

Spec == Init /\ [][Next]_vars

\* The threads of the program are scheduled by the operating system: the
\* thread of main and the threads of the pool are not held back for ever
\* while they can take a step, and draw_percentage polls its channel every
\* half second for as long as it runs.
Fairness ==
    /\ WF_vars(Builder)
    /\ WF_vars(ConsumerRecv)

\* the inputs of the runs checked for termination: any files, each of 1 GiB
\* (a parallel build from two pairs on), or each one byte short of it (a
\* sequential build)
FairInputs ==
    UNION {{[i \in 1..n |-> [path |-> ps[i], content |-> c]] :
                ps \in PathSeqs(n), c \in {ContentBig, ContentAlmostBig}} : n \in 0..MaxDocs}

InitFair == \E input \in FairInputs : InitWith(input)

NextFair == Builder \/ ConsumerRecv

SpecFair == InitFair /\ [][NextFair]_vars /\ Fairness


\* the build alone, before the server is started
NextBuild == Builder \/ ConsumerRecv

SpecBuild == Init /\ [][NextBuild]_vars


SpecProgress == InitProgress /\ [][Next]_vars

NextDrop ==
    \/ Next
    \/ DropReceiver
    \/ \E w \in Workers : AcquirePoisoned(w) \/ CrashOnPoisoned(w)

SpecDrop == Init /\ [][NextDrop]_vars

(***************************************************************************)
(* prepare_word on its own: a raw token is prepared, and what comes out is  *)
(* prepared once more.                                                      *)
(***************************************************************************)
\* n times the character c
Rep(c, n) == [i \in 1..n |-> c]

\* lengths around the limit of 64, in characters and (for two-byte
\* characters) in bytes
CoreLens == {0, 1, 2, 3, 32, 33, MaxWordLen - 1, MaxWordLen, MaxWordLen + 1}

WordCores ==
    {Rep(c, n) : c \in {"a", "S", "U+00E9"}, n \in CoreLens}
        \cup {<<"B", "c", "s">>, <<"a", "-", "s">>, <<"a", "!", "B">>}

WordEnds == {<<>>, <<"!">>, <<"(", "-">>, <<"s">>}

\* the raw tokens: a core between two ends
Words == {pre \o core \o post : pre \in WordEnds, core \in WordCores, post \in WordEnds}

InitWord ==
    /\ InitModel(<<>>)
    /\ wpc = "new"
    /\ word \in Words
    /\ prepared = None
    /\ again = None

\* prepare_word(word)
PrepareWord ==
    /\ wpc = "new"
    /\ prepared' = prepare_word(word)
    /\ wpc' = "prepared"
    /\ UNCHANGED <<word, again>>
    /\ UNCHANGED <<buildVars, indexVars, chanVars, consVars, servVars>>

\* prepare_word(term) for the term the first call returned
PrepareAgain ==
    /\ wpc = "prepared"
    /\ IsSome(prepared)
    /\ again' = prepare_word(Unwrap(prepared))
    /\ wpc' = "again"
    /\ UNCHANGED <<word, prepared>>
    /\ UNCHANGED <<buildVars, indexVars, chanVars, consVars, servVars>>

NextWord == PrepareWord \/ PrepareAgain

SpecWord == InitWord /\ [][NextWord]_vars

(***************************************************************************)
(* Builds of about 20 files, each followed by one request for "Bcs".  File  *)
(* i of n holds "bc" and i - 1 times "c"; the last file holds only "c".     *)
(***************************************************************************)
ServeContent(i, n) ==
    [text |-> IF i = n THEN <<"c">>
              ELSE <<"b", "c">> \o [k \in 1..(2 * (i - 1)) |-> IF k % 2 = 1 THEN " " ELSE "c"],
     pad |-> 0]

ServeInput(n) == [i \in 1..n |-> [path |-> i, content |-> ServeContent(i, n)]]

ServeTotals == {0, 1, 2, TakeLimit - 1, TakeLimit, TakeLimit + 1, TakeLimit + 2}

\* the builds served: the sequential ones above, and a parallel one of two
\* files
ServeInputs ==
    {ServeInput(n) : n \in ServeTotals}
        \cup {<<[path |-> 1, content |-> ContentBig], [path |-> 2, content |-> ContentB]>>}

InitServe == \E input \in ServeInputs : InitWith(input)

NextServe == Builder \/ ConsumerRecv \/ Search(QueryBc)

SpecServe == InitServe /\ [][NextServe]_vars

(***************************************************************************)
(* Properties.                                                              *)
(***************************************************************************)
\* no call of add_document is under way
NoCallInProgress == \A t \in Threads : tpc[t] \in {"idle", "wait", "release"}

ParMode == have_big_files(contents)

TermsOf(d, f) == (DOMAIN f) \cup UNION {DOMAIN d[p].tf : p \in DOMAIN d}

DocsWith(d, t) == {p \in DOMAIN d : t \in DOMAIN d[p].tf}

\* invariant I1 of the index (d, f)
I1(d, f) == \A t \in TermsOf(d, f) : GetOr(f, t, 0) = Cardinality(DocsWith(d, t))

InputPaths == {contents[i].path : i \in 1..Len(contents)}

Occurrences(sig) == Cardinality({i \in DOMAIN sent : sent[i].sig = sig})

MilestoneCount(p) == (Len(contents) * p) \div 100

AllContents == SmallContents \cup {ContentBig}

\* C1: after every add_document call of any sequence of calls, new paths and
\* re-indexed paths mixed, df[t] (0 when t is no key) is the number of stored
\* documents whose term-frequency map contains t, for every term t.
C1_I1AfterEveryCall == NoCallInProgress => I1(docs, df)

\* a path has been re-indexed, another document is stored beside it and the
\* count of some term went back to 0
C1_Witness ==
    /\ NoCallInProgress
    /\ count > Cardinality(DOMAIN docs)
    /\ Cardinality(DOMAIN docs) >= 2
    /\ \E t \in DOMAIN df : df[t] = 0

\* the consumer has read nothing yet and no request has been served (neither
\* of them writes to the index: every index the build reaches is reached in
\* such a state)
IndexOnly == Len(chan) = Len(sent) /\ query = NoQuery

\* C2: add_document(p, c1) followed by add_document(p, c2) leaves as many
\* documents as the first call did, and every document frequency (0 for an
\* absent key) is what add_document(p, c2) alone gives on the starting index.
\* Stated of every index a build reaches between two calls (in parallel mode
\* every such index is also reached with all workers idle: one worker may
\* take every pair).
C2_ReindexLeavesNoResidue ==
    ((\A t \in Threads : tpc[t] = "idle") /\ IndexOnly) =>
        \A p \in Paths, c1 \in AllContents, c2 \in AllContents :
            \A m1 \in {AddDocument([docs |-> docs, df |-> df], p, c1)} :
                \A m2 \in {AddDocument(m1, p, c2)},
                   alone \in {AddDocument([docs |-> docs, df |-> df], p, c2)} :
                    /\ Cardinality(DOMAIN m2.docs) = Cardinality(DOMAIN m1.docs)
                    /\ \A t \in TermsOf(m2.docs, m2.df) \cup TermsOf(alone.docs, alone.df) :
                            GetOr(m2.df, t, 0) = GetOr(alone.df, t, 0)

\* the sequential build has just indexed one path twice in a row, with two
\* different contents, on an index that holds another document
C2_Witness ==
    /\ pc = "seq"
    /\ tpc[Main] = "idle"
    /\ idx >= 4
    /\ contents[idx - 2].path = contents[idx - 1].path
    /\ contents[idx - 2].content # contents[idx - 1].content
    /\ docs[contents[idx - 1].path] = DocNew(contents[idx - 1].content)
    /\ Cardinality(DOMAIN docs) = 2

\* C3: in parallel mode, whenever the mutex is free, I1 holds and no path is
\* stored more than once (the stored paths are paths of the input, and there
\* are no more documents than add_document calls), also when the input names
\* a path more than once.
C3_I1WheneverLockFree ==
    (ParMode /\ lock = 0) =>
        /\ I1(docs, df)
        /\ DOMAIN docs \subseteq InputPaths
        /\ Cardinality(DOMAIN docs) <= count

\* parallel mode, the mutex free with a worker waiting for it, after a path
\* of the input has been indexed a second time
C3_Witness ==
    /\ ParMode
    /\ pc = "par"
    /\ lock = 0
    /\ \E w \in Workers : tpc[w] = "wait"
    /\ count > Cardinality(DOMAIN docs)
    /\ Cardinality(DOMAIN docs) >= 1

\* C4 as claimed: when add_contents has returned, every percentage of
\* 5, 10, ..., 100 has been sent exactly once, whatever the number of pairs.
C4_EveryPercentageOnce ==
    pc = "done" => \A k \in 1..20 : Occurrences(5 * k) = 1

\* C4 as amended: no percentage is ever sent twice, and when add_contents has
\* returned a percentage p has been sent once if (total_docs * p) / 100 >= 1
\* and not at all if (total_docs * p) / 100 = 0.
C4_PercentageOnceIfReached ==
    /\ \A k \in 1..20 : Occurrences(5 * k) <= 1
    /\ pc = "done" =>
        \A k \in 1..20 :
            Occurrences(5 * k) = IF MilestoneCount(5 * k) >= 1 THEN 1 ELSE 0

\* a parallel build of fewer than 20 pairs has returned
C4_Witness ==
    /\ pc = "done"
    /\ ParMode
    /\ Len(contents) \in 1..19
    /\ Occurrences(5) = 0
    /\ Occurrences(100) = 1

\* C5: when total_docs is a positive multiple of 20, the signal p is sent at
\* the running count (total_docs * p) / 100 and at no other: it has been sent
\* once as soon as the call that made the count reach that value is past
\* print_progress, and not before; from the increment to the send the thread
\* keeps the mutex.  (For 200 pairs: 50 is sent once, at count 100.)
C5_SentWhenCountReached ==
    (Len(contents) > 0 /\ Len(contents) % 20 = 0) =>
        /\ \A i \in DOMAIN sent :
                sent[i].sig # 0 => sent[i].cnt = MilestoneCount(sent[i].sig)
        /\ \A k \in 1..20 :
                Occurrences(5 * k) =
                    IF \/ count > MilestoneCount(5 * k)
                       \/ /\ count = MilestoneCount(5 * k)
                          /\ \A t \in Threads : tpc[t] # "progress"
                    THEN 1 ELSE 0
        /\ \A w \in Workers : tpc[w] \in {"count", "progress"} => lock = w

\* 200 pairs in parallel mode: the second worker has just sent 50 at count 100
C5_Witness ==
    /\ Len(contents) = 200
    /\ ParMode
    /\ count = 100
    /\ tpc[2] = "store"
    /\ lock = 2
    /\ Occurrences(50) = 1
    /\ sent[Len(sent)] = [sig |-> 50, cnt |-> 100]

AllCommitted ==
    /\ count = Len(contents)
    /\ \A t \in Threads : tpc[t] = "idle"
    /\ InputPaths \subseteq DOMAIN docs
    /\ IF ParMode THEN pending = EmptyBag ELSE idx = Len(contents) + 1

\* C6: a run of add_contents, in either mode and for any input, the empty one
\* included, sends 0 exactly once: it is the last signal sent, it is sent when
\* every pair has been committed, and add_contents has returned by then.
C6_TerminalZeroOnceAtEnd ==
    /\ pc = "done" => Occurrences(0) = 1
    /\ \A i \in DOMAIN sent : sent[i].sig = 0 => (i = Len(sent) /\ pc = "done")
    /\ pc = "done" => AllCommitted

\* a parallel build of the largest input has returned
C6_Witness ==
    /\ pc = "done"
    /\ ParMode
    /\ Len(contents) = MaxDocs
    /\ sent[Len(sent)].sig = 0
    /\ Len(sent) >= 2

\* C7: when the consumer has dropped its Receiver during a build, the build
\* goes on as if it had not: add_contents does not panic.
C7_DropDoesNotAffectBuild ==
    cpc = "dropped" => pc \notin {"panicked", "crashed"}

\* C8: the builder never waits for the consumer.  Whatever the channel holds
\* (the consumer may have read nothing of it), a thread at print_progress or
\* at the terminal send can take its step at once.
C8_BuilderNeverWaits ==
    /\ \A t \in Threads : (Running(t) /\ tpc[t] = "progress") => ENABLED Progress(t)
    /\ (pc = "seq" /\ tpc[Main] = "idle" /\ idx > Len(contents)) => ENABLED SeqFinish
    /\ (/\ pc = "par"
        /\ pending = EmptyBag
        /\ \A w \in Workers : tpc[w] = "idle"
        /\ lock = 0) => ENABLED ParFinish

\* the build has returned and the consumer has not read a single signal
C8_Witness ==
    /\ pc = "done"
    /\ cpc = "polling"
    /\ Len(chan) = Len(sent)
    /\ Len(sent) >= 3
    /\ AllCommitted

RankOf(p) == Rank(docs, df, p, QueryTokens(query))

\* C10: search returns exactly the documents whose score is not NaN, each
\* path once, each with its score, ordered by non-increasing score; a
\* document whose score is NaN is absent.
C10_SearchResult ==
    query # NoQuery =>
        /\ {ranks[i][1] : i \in DOMAIN ranks} = {p \in DOMAIN docs : ~is_nan(RankOf(p))}
        /\ \A i, j \in DOMAIN ranks : i # j => ranks[i][1] # ranks[j][1]
        /\ \A i \in DOMAIN ranks : ranks[i][2] = RankOf(ranks[i][1])
        /\ \A i, j \in DOMAIN ranks : i < j => ~FLess(ranks[i][2], ranks[j][2])

\* three documents, one with a NaN score: the two others are returned, the
\* higher score first
C10_Witness ==
    /\ query # NoQuery
    /\ Cardinality(DOMAIN docs) = 3
    /\ \E p \in DOMAIN docs : is_nan(RankOf(p))
    /\ Len(ranks) = 2
    /\ FLess(ranks[2][2], ranks[1][2])

\* the one term of the last query, when it has exactly one
OneTerm == QueryTokens(query)[1]

\* the place of a path in the last result, 0 when it is not there
PlaceOf(p) ==
    IF \E i \in DOMAIN ranks : ranks[i][1] = p
    THEN CHOOSE i \in DOMAIN ranks : ranks[i][1] = p
    ELSE 0

\* C11: a document with no term (count = 0) has term frequency 0 for every
\* query term, and when every query term has df >= 1 it is in the result
\* with a score that is not NaN.
C11_EmptyDocScoresZero ==
    query # NoQuery =>
        \A p \in DOMAIN docs :
            docs[p].count = 0 =>
                /\ \A i \in DOMAIN QueryTokens(query) :
                        tf(QueryTokens(query)[i], docs[p]) = Zero
                /\ (\A i \in DOMAIN QueryTokens(query) :
                        GetOr(df, QueryTokens(query)[i], 0) >= 1)
                    => (PlaceOf(p) # 0 /\ ~is_nan(ranks[PlaceOf(p)][2]))

\* C12: for a query of one term t with df[t] >= 1, a document that has terms
\* but not t is in the result with score exactly 0; when df[t] is less than
\* the number of documents, every document that holds t is in the result
\* before every document that does not; when every document holds t with the
\* same term frequency, all documents are in the result with equal scores.
C12_AbsentTermScoresZero ==
    (query # NoQuery /\ Len(QueryTokens(query)) = 1 /\ GetOr(df, OneTerm, 0) >= 1) =>
        /\ \A p \in DOMAIN docs :
                (docs[p].count > 0 /\ ~HasKey(docs[p].tf, OneTerm)) =>
                    (PlaceOf(p) # 0 /\ ranks[PlaceOf(p)][2] = Zero)
        /\ GetOr(df, OneTerm, 0) < Cardinality(DOMAIN docs) =>
                \A p \in DocsWith(docs, OneTerm) :
                    /\ PlaceOf(p) # 0
                    /\ \A i \in DOMAIN ranks :
                            ranks[i][1] \notin DocsWith(docs, OneTerm) => PlaceOf(p) < i
        /\ (/\ DocsWith(docs, OneTerm) = DOMAIN docs
            /\ \A p, q \in DOMAIN docs : tf(OneTerm, docs[p]) = tf(OneTerm, docs[q])) =>
                /\ \A p \in DOMAIN docs : PlaceOf(p) # 0
                /\ \A i, j \in DOMAIN ranks : ranks[i][2] = ranks[j][2]

\* the query "Bcs" on three documents: one holds bc, one holds only a, one
\* holds nothing; the first is ranked before the second
C12_Witness ==
    /\ query = QueryBc
    /\ Cardinality(DOMAIN docs) = 3
    /\ Cardinality(DocsWith(docs, OneTerm)) = 1
    /\ \E p \in DOMAIN docs : docs[p].count > 0 /\ ~HasKey(docs[p].tf, OneTerm)
    /\ Len(ranks) = 2
    /\ ranks[2][2] = Zero
    /\ FLess(Zero, ranks[1][2])

\* C13: search on an index with no document returns the empty sequence,
\* whatever the query.
C13_EmptyIndexEmptyResult ==
    (query # NoQuery /\ DOMAIN docs = {}) => ranks = <<>>

\* the empty input has been built and a query with an unseen term (its idf
\* is NaN: 0 / 0) has been answered
C13_Witness ==
    /\ pc = "done"
    /\ Len(contents) = 0
    /\ query = QueryUnseen
    /\ is_nan(idf(docs, df, QueryTokens(query)[1]))
    /\ ranks = <<>>

\* the trimmed form of the raw token
Trimmed == trim_matches(word)

CallsDone ==
    IF pc = "new" THEN 0
    ELSE IF ParMode
         THEN Len(contents) - BagCardinality(pending)
                - Cardinality({w \in Workers : tpc[w] # "idle"})
         ELSE idx - 1 - (IF tpc[Main] = "idle" THEN 0 ELSE 1)

\* C15 as claimed: between calls, count is the number of documents stored.
C15_CountIsDocsLen ==
    NoCallInProgress => count = Cardinality(DOMAIN docs)

\* C15 as amended: between calls, count is the number of add_document calls
\* that have returned; it is never less than the number of documents stored,
\* and when add_contents has returned it is the number of pairs while docs
\* holds one document per distinct path.
C15_CountIsCallsDone ==
    /\ (\A t \in Threads : tpc[t] \in {"idle", "wait"}) => count = CallsDone
    /\ NoCallInProgress => Cardinality(DOMAIN docs) <= count
    /\ pc = "done" =>
            /\ count = Len(contents)
            /\ Cardinality(DOMAIN docs) = Cardinality(InputPaths)

\* three pairs for one path have been built: count is 3, one document
C15_Witness ==
    /\ pc = "done"
    /\ count = 3
    /\ Cardinality(DOMAIN docs) = 1

\* C17: rm_document never decrements a document frequency that is 0: when a
\* call is about to retract a stored document, every term of that document
\* has df >= 1, and no decrement has ever met 0.
C17_NoDecrementOfZero ==
    /\ ~underflow
    /\ \A t \in Threads :
            (tpc[t] = "rm" /\ HasKey(docs, cur[t].path)) =>
                \A term \in DOMAIN docs[cur[t].path].tf : GetOr(df, term, 0) >= 1

\* the sequential build has just retracted the old document of a path, the
\* only one that held its terms: their df went from 1 to 0
C17_Witness ==
    /\ pc = "seq"
    /\ tpc[Main] = "build"
    /\ idx >= 3
    /\ contents[idx - 2].path = cur[Main].path
    /\ ~HasKey(docs, cur[Main].path)
    /\ \E term \in DOMAIN df : df[term] = 0
    /\ ~underflow

\* the threads inside add_document, and the steps they are at
InCall(t) == tpc[t] \in {"build", "apply", "count", "progress", "store"}

\* C18: while add_document works on a path, from the return of rm_document
\* to the store, docs holds no document for that path; until the loop over
\* the new keys has run df counts the other documents only, and after it df
\* counts the other documents and the new one: the old and the new version
\* are never counted together.
C18_RetractBeforeApply ==
    \A t \in Threads :
        InCall(t) =>
            /\ ~HasKey(docs, cur[t].path)
            /\ tpc[t] \in {"build", "apply"} => I1(docs, df)
            /\ tpc[t] \in {"count", "progress", "store"} =>
                    \A term \in TermsOf(docs, df) \cup DOMAIN doc[t].tf :
                        GetOr(df, term, 0) =
                            Cardinality(DocsWith(docs, term))
                                + (IF HasKey(doc[t].tf, term) THEN 1 ELSE 0)

\* a path is indexed again with a content that shares a term with its old
\* one: the new keys have been applied and the term counts once
C18_Witness ==
    /\ pc = "seq"
    /\ tpc[Main] = "count"
    /\ idx >= 3
    /\ contents[idx - 2].path = cur[Main].path
    /\ \E term \in DOMAIN doc[Main].tf :
            /\ HasKey(DocNew(contents[idx - 2].content).tf, term)
            /\ df[term] = 1

\* the steps of the for_each closure from the lock to the drop of the guard
Inside == {"rm", "build", "apply", "count", "progress", "store", "release"}

\* C19: in parallel mode at most one worker is between its lock and the
\* drop of its guard, and that worker holds the mutex.
C19_OneWorkerInside ==
    /\ Cardinality({w \in Workers : tpc[w] \in Inside}) <= 1
    /\ \A w \in Workers : tpc[w] \in Inside => lock = w

\* one worker is at the loop over the new keys while another waits for the
\* mutex with its pair
C19_Witness ==
    /\ pc = "par"
    /\ tpc[1] = "apply"
    /\ tpc[2] = "wait"
    /\ lock = 1

\* some pair among the first floor(n / 2) has a content of 1 GiB or more
BigInFirstHalf ==
    \E i \in DOMAIN contents : 2 * i <= Len(contents) /\ ContentLen(contents[i].content) >= GIG

\* C20: add_contents builds in parallel mode exactly when one of the first
\* floor(n / 2) pairs has a content of 1 GiB or more: pool threads work only
\* then, the main thread indexes only otherwise, and an input of 0 or 1
\* pairs is built by the main thread.
C20_ParallelIffBigInFirstHalf ==
    /\ (pc = "par" \/ \E w \in Workers : tpc[w] # "idle") => BigInFirstHalf
    /\ (pc = "seq" \/ idx > 1 \/ tpc[Main] # "idle") => ~BigInFirstHalf
    /\ (pc = "done" /\ Len(contents) > 0) => (idx = 1 <=> BigInFirstHalf)
    /\ (pc # "new" /\ Len(contents) <= 1) => (pc \in {"seq", "done"} /\ \A w \in Workers : tpc[w] = "idle")

\* a 1 GiB content in the last of three places: the main thread has indexed it
C20_Witness ==
    /\ Len(contents) = 3
    /\ ContentLen(contents[3].content) >= GIG
    /\ pc = "seq"
    /\ idx = 4
    /\ tpc[Main] = "idle"

\* the place of the last pair for path p among the first n pairs
LastOccurrence(p, n) ==
    CHOOSE i \in 1..n : contents[i].path = p /\ \A j \in (i + 1)..n : contents[j].path # p

\* the paths of the first n pairs
PrefixPaths(n) == {contents[i].path : i \in 1..n}

\* the document Doc::new gives for the last of the first n pairs of path p
LastDoc(p, n) == DocNew(contents[LastOccurrence(p, n)].content)

\* C21: in sequential mode the pairs are committed in input order: after
\* each call the index holds, for every path met so far, the document of
\* its last pair so far and no other document, and df counts the documents
\* held (I1); so when the build has returned a path that occurs more than
\* once is stored with the document of its last occurrence, which alone
\* counts in df.
C21_SequentialLastWins ==
    (~ParMode /\ pc \in {"seq", "done"} /\ tpc[Main] = "idle") =>
        /\ DOMAIN docs = PrefixPaths(idx - 1)
        /\ \A p \in PrefixPaths(idx - 1) : docs[p] = LastDoc(p, idx - 1)
        /\ I1(docs, df)

\* a path occurs first with "a Bcs." and last with "bc, c;bc": the build has
\* returned, the stored document is the one of the last occurrence, and the
\* term of the first occurrence alone has df 0
C21_Witness ==
    /\ pc = "done"
    /\ ~ParMode
    /\ Len(contents) = 3
    /\ contents[1].path = contents[3].path
    /\ contents[1].content = ContentA
    /\ contents[3].content = ContentB
    /\ docs[contents[3].path] = DocNew(ContentB)
    /\ df[<<"a">>] = 0

\* the sum of the counts of a term-frequency map
RECURSIVE SumCounts(_)
SumCounts(m) ==
    IF DOMAIN m = {} THEN 0
    ELSE LET k == CHOOSE k \in DOMAIN m : TRUE
         IN  m[k] + SumCounts(Remove(m, k))

\* the raw tokens of a content that prepare_word accepts
Accepted(content) ==
    SelectSeq(Tokens(content), LAMBDA w : IsSome(prepare_word(w)))

\* C22: the document Doc::new has built for a content has a total that is
\* the sum of the counts of its map and the number of raw tokens
\* prepare_word accepted; every count it stores is at least 1, every key is
\* the normal form of an accepted token, and a rejected token leaves no
\* trace.
C22_TotalIsSumOfCounts ==
    \A t \in Threads :
        tpc[t] = "apply" =>
            LET accepted == Accepted(cur[t].content)
            IN  /\ doc[t].count = SumCounts(doc[t].tf)
                /\ doc[t].count = Len(accepted)
                /\ \A k \in DOMAIN doc[t].tf : doc[t].tf[k] >= 1
                /\ DOMAIN doc[t].tf =
                        {Unwrap(prepare_word(accepted[i])) : i \in DOMAIN accepted}

\* "bc, c;bc" has been built: of its raw tokens one is empty and rejected,
\* three are accepted, bc is counted twice
C22_Witness ==
    \E t \in Threads :
        /\ tpc[t] = "apply"
        /\ cur[t].content = ContentB
        /\ Len(Tokens(ContentB)) = 4
        /\ doc[t].count = 3
        /\ doc[t].tf[<<"b", "c">>] = 2

\* the accepted terms of the last query whose document frequency is 0
UnseenTerms ==
    {t \in {QueryTokens(query)[i] : i \in DOMAIN QueryTokens(query)} : GetOr(df, t, 0) = 0}

\* C23: when the query has an accepted term whose document frequency is 0
\* (no key in df, or a key left at 0 by a replacement) and the index holds a
\* document, search returns the empty sequence: the score of every document
\* is NaN, the documents that hold other terms of the query included.
C23_UnseenTermEmptiesResult ==
    (query # NoQuery /\ DOMAIN docs # {} /\ UnseenTerms # {}) =>
        /\ \A p \in DOMAIN docs : is_nan(RankOf(p))
        /\ ranks = <<>>

\* the query "a, c" after a path was indexed with "a Bcs." and then with
\* "bc, c;bc": a is a key of df left at 0, the stored document holds c, and
\* nothing is returned
C23_Witness ==
    /\ query = QueryAC
    /\ HasKey(df, <<"a">>)
    /\ df[<<"a">>] = 0
    /\ \E p \in DOMAIN docs : HasKey(docs[p].tf, <<"c">>)
    /\ UnseenTerms = {<<"a">>}
    /\ ranks = <<>>

\* C24: search is read-only: the step that answers a request leaves docs,
\* df and count as they were and sends no signal on the progress channel.
C24_SearchReadOnly ==
    [][query' # query =>
            /\ docs' = docs
            /\ df' = df
            /\ count' = count
            /\ sent' = sent
            /\ chan' = chan]_vars

\* a request with a term that is no key of df has been answered on an index
\* of three documents, and the term is still no key of df
C24_Witness ==
    /\ query = QueryUnseen
    /\ Cardinality(DOMAIN docs) = 3
    /\ ~HasKey(df, <<"1">>)
    /\ count = 3
    /\ Occurrences(0) = 1

\* C25: as main wires the program, a request is answered only when
\* add_contents has returned: every pair is committed, the terminal 0 has
\* been sent, and no thread is inside add_document.
C25_SearchAfterBuild ==
    query # NoQuery =>
        /\ pc = "done"
        /\ AllCommitted
        /\ Occurrences(0) = 1
        /\ \A t \in Threads : tpc[t] = "idle"
        /\ lock = 0

\* a request has been answered after a parallel build of three pairs
C25_Witness ==
    /\ query # NoQuery
    /\ ParMode
    /\ Len(contents) = 3
    /\ count = 3
    /\ sent[Len(sent)].sig = 0

\* the index after add_document has been called for the first n pairs in
\* input order, starting from the empty index
RECURSIVE SeqIndex(_)
SeqIndex(n) ==
    IF n = 0 THEN [docs |-> EmptyMap, df |-> EmptyMap]
    ELSE AddDocument(SeqIndex(n - 1), contents[n].path, contents[n].content)

\* no path occurs twice in the input
DistinctPaths == Cardinality(InputPaths) = Len(contents)

\* C28: for an input whose paths are pairwise distinct, a parallel build
\* ends, whatever the interleaving of the workers, with the index a
\* sequential build of the same input ends with: the same documents, the
\* same df, the same count.
C28_ParallelEqualsSequential ==
    (pc = "done" /\ ParMode /\ DistinctPaths) =>
        /\ docs = SeqIndex(Len(contents)).docs
        /\ df = SeqIndex(Len(contents)).df
        /\ count = Len(contents)

\* a parallel build of three distinct files has returned; two of them share
\* the term a
C28_Witness ==
    /\ pc = "done"
    /\ ParMode
    /\ DistinctPaths
    /\ Len(contents) = 3
    /\ Cardinality(DOMAIN docs) = 3
    /\ df[<<"a">>] = 2
    /\ query = NoQuery

\* the percentages whose milestone count is at least 1 for n pairs, in
\* increasing order, then the terminal 0
ExpectedSignals(n) ==
    LET reached == SelectSeq(Percentages, LAMBDA p : (n * p) \div 100 >= 1)
    IN  Append(reached, 0)

\* C29: in both modes and under every interleaving the non-zero percentages
\* are sent in strictly increasing order, and the sequence of signals a
\* build has sent when it returns is a function of the number of pairs
\* alone: a parallel build sends what a sequential build of as many pairs
\* sends.
C29_SignalsIncreasing ==
    /\ \A i, j \in DOMAIN sent :
            (i < j /\ sent[i].sig # 0 /\ sent[j].sig # 0) => sent[i].sig < sent[j].sig
    /\ pc = "done" => [i \in DOMAIN sent |-> sent[i].sig] = ExpectedSignals(Len(contents))

\* a parallel build of 7 pairs has returned: 5 and 10 have no milestone, 15
\* to 25 were sent together at the first pair, 100 at the last
C29_Witness ==
    /\ pc = "done"
    /\ ParMode
    /\ Len(contents) = 7
    /\ Len(sent) = 19
    /\ sent[1].sig = 15
    /\ sent[2].sig = 20
    /\ sent[1].cnt = sent[3].cnt
    /\ sent[18].sig = 100

\* C30: on every index add_contents has built, every score search returns
\* is finite and not negative: df[t] never exceeds the number of documents,
\* so no idf is negative, and a term with df 0 is in no document, so an
\* infinite idf only ever meets a term frequency of 0 and the NaN it gives
\* is filtered.
C30_ScoresFiniteNonNegative ==
    query # NoQuery =>
        /\ \A i \in DOMAIN ranks : ranks[i][2].cls = "fin" /\ ranks[i][2].v >= 0
        /\ \A t \in TermsOf(docs, df) : GetOr(df, t, 0) <= Cardinality(DOMAIN docs)
        /\ \A t \in TermsOf(docs, df) : GetOr(df, t, 0) = 0 => DocsWith(docs, t) = {}

\* a path was indexed twice with "a Bcs." beside another file: the query
\* "Bcs" returns both, the first with a positive score, the second with 0
C30_Witness ==
    /\ query = QueryBc
    /\ count = 3
    /\ Cardinality(DOMAIN docs) = 2
    /\ GetOr(df, <<"b", "c">>, 0) = 1
    /\ Len(ranks) = 2
    /\ ranks[1][2].v > 0
    /\ ranks[2][2] = Zero

\* the workers that hold a pair whose call has not counted yet
BeforeCount == {w \in Workers : tpc[w] \in {"wait", "rm", "build", "apply", "count"}}

\* the parallel build has returned with every pair committed
ParallelDone ==
    /\ pc = "done"
    /\ count = Len(contents)
    /\ pending = EmptyBag
    /\ \A w \in Workers : tpc[w] = "idle"
    /\ InputPaths \subseteq DOMAIN docs
    /\ lock = 0

\* C26: a parallel build terminates under fair scheduling, without
\* deadlock: every pair is taken by one worker and counted once (the pairs
\* not taken, the pairs in hand and the pairs counted are the pairs of the
\* input), add_contents finds the mutex free when it locks it again for the
\* terminal 0, and the build ends with count equal to the number of pairs.
C26_ParallelBuildTerminates ==
    /\ [](pc = "par" =>
            BagCardinality(pending) + Cardinality(BeforeCount) + count = Len(contents))
    /\ [][(pc = "par" /\ pc' = "done") =>
            (lock = 0 /\ pending = EmptyBag /\ \A w \in Workers : tpc[w] = "idle")]_vars
    /\ (pc = "par") ~> ParallelDone

\* a parallel build of the largest input has returned and the mutex is free
C26_Witness ==
    /\ pc = "done"
    /\ ParMode
    /\ Len(contents) = MaxDocs
    /\ count = MaxDocs
    /\ lock = 0
    /\ Occurrences(0) = 1

\* the signals sent so far, in the order of their sends
SentSignals == [i \in DOMAIN sent |-> sent[i].sig]

\* C27: draw_percentage returns when it receives 0 and not before: when it
\* has returned, 0 is the last signal it received and the only 0, the build
\* has returned, and what it received is what was sent, in the order sent.
\* At any time what it has received, followed by what is in the channel, is
\* what has been sent.  Under fair scheduling it returns in every run.
C27_ConsumerReturnsOnZero ==
    /\ [](received \o chan = SentSignals)
    /\ [](cpc = "returned" <=> (received # <<>> /\ received[Len(received)] = 0))
    /\ [](cpc = "returned" =>
            /\ \A i \in 1..(Len(received) - 1) : received[i] # 0
            /\ pc = "done"
            /\ received = SentSignals)
    /\ <>(cpc = "returned")

\* draw_percentage has returned after a parallel build; it has drawn 100
C27_Witness ==
    /\ cpc = "returned"
    /\ ParMode
    /\ Len(received) >= 3
    /\ received[Len(received)] = 0
    /\ received[Len(received) - 1] = 100
    /\ percentage = 100

\* the terms of the document stored under a path, none when there is none
OldTerms(d, path) == IF HasKey(d, path) THEN DOMAIN d[path].tf ELSE {}

\* the frame of one add_document(path, content) on the index m: the other
\* documents are as they were, the path holds the new document, and the
\* count of a term moves by +1 when the new document holds it and by -1 when
\* the old one did, so that it stays when both or neither do
CallFrame(m, path, content) ==
    LET r == AddDocument(m, path, content)
        old == OldTerms(m.docs, path)
        new == DOMAIN DocNew(content).tf
    IN  /\ DOMAIN r.docs = (DOMAIN m.docs) \cup {path}
        /\ \A q \in (DOMAIN m.docs) \ {path} : r.docs[q] = m.docs[q]
        /\ r.docs[path] = DocNew(content)
        /\ \A t \in (DOMAIN m.df) \cup (DOMAIN r.df) \cup old \cup new :
                GetOr(r.df, t, 0) =
                    GetOr(m.df, t, 0) + (IF t \in new THEN 1 ELSE 0)
                                      - (IF t \in old THEN 1 ELSE 0)

\* the frame of one step: a document changes only under the path of a thread
\* that is at rm_document or at the store, and the count of a term changes
\* only when a thread at rm_document retracts a document that holds it or a
\* thread at the loop over the new keys has built a document that holds it
StepFrame ==
    /\ \A q \in (DOMAIN docs) \cup (DOMAIN docs') :
            (~HasKey(docs, q) \/ ~HasKey(docs', q) \/ docs[q] # docs'[q]) =>
                \E t \in Threads : tpc[t] \in {"rm", "store"} /\ cur[t].path = q
    /\ \A term \in (DOMAIN df) \cup (DOMAIN df') :
            GetOr(df', term, 0) # GetOr(df, term, 0) =>
                \E t \in Threads :
                    \/ tpc[t] = "rm" /\ term \in OldTerms(docs, cur[t].path)
                    \/ tpc[t] = "apply" /\ term \in DOMAIN doc[t].tf

\* C31: add_document(p, c) leaves the document under every path other than
\* p as it was, and changes the document frequency only of the terms of the
\* old document of p and of the document built from c; a term of both keeps
\* its count.  Stated for the call as a whole at the state it starts from,
\* and for each of its steps.
C31_AddDocumentFrame ==
    /\ [](\A t \in Threads :
            (Running(t) /\ tpc[t] = "rm") =>
                CallFrame([docs |-> docs, df |-> df], cur[t].path, cur[t].content))
    /\ [][StepFrame]_vars

\* the third call of a sequential build has returned: it indexed path 1 again
\* ("a Bcs." replaced by "bc, c;bc") beside path 2 ("a Bcs."); the document
\* of path 2 is as it was, a went from 2 to 1, bc stayed at 2, c is new
C31_Witness ==
    /\ pc = "seq"
    /\ tpc[Main] = "idle"
    /\ idx = 4
    /\ contents[1] = [path |-> 1, content |-> ContentA]
    /\ contents[2] = [path |-> 2, content |-> ContentA]
    /\ contents[3] = [path |-> 1, content |-> ContentB]
    /\ docs[2] = DocNew(ContentA)
    /\ docs[1] = DocNew(ContentB)
    /\ df[<<"a">>] = 1
    /\ df[<<"b", "c">>] = 2
    /\ df[<<"c">>] = 1

====
